---- MODULE Spec2Model ----
(***************************************************************************)
(* A model of ar_flac.py: validation of FLAC rips against the AccurateRip  *)
(* database.  The pure functions of the script (calc_ar_disc_info,         *)
(* sum_digits, create_accuraterip_db_url, yield_data_from_bin) are         *)
(* operators; the script body (__main__) and the two generators it drives  *)
(* (yield_track_offsets, yield_crcs_from_flac_files over lookahead) are    *)
(* actions over a program counter.                                         *)
(*                                                                         *)
(* Python integers are unbounded while TLC's integers are 32-bit           *)
(* signed, so an integer that may reach 2^31 is kept as a record           *)
(* [hi, lo] standing for hi * 2^16 + lo with 0 <= lo < 2^16 (hi any         *)
(* integer, negative for a negative number).  `x & 0xFFFFFFFF` is then      *)
(* hi % 2^16.                                                              *)
(***************************************************************************)
EXTENDS Integers, Sequences, FiniteSets, TLC

VARIABLES
    pc,             \* position in the script body / the generators
    flac_files,     \* the sorted FLAC files: records [num_samples, fill]
    track_offsets,  \* list(yield_track_offsets(flac_files))
    offset,         \* yield_track_offsets: the running offset
    ar_disc_info,   \* ARDiscInfo, or NoInfo before it is computed
    ar_db_url,      \* the lookup URL, a sequence of characters
    requested,      \* the URLs handed to req.get, in order
    ar_bin_data,    \* response.content, a sequence of bytes
    bin_data,       \* list(yield_data_from_bin(...))
    error,          \* the exception that ended the script, or "none"
    it,             \* lookahead: how many values were pulled from the iterator
    last,           \* lookahead: index (into flac_files) of the held value
    la,             \* lookahead: where the generator stands
    f,              \* yield_crcs_from_flac_files: index of the file in hand
    is_first,       \* yield_crcs_from_flac_files: the flag
    is_last,        \* yield_crcs_from_flac_files: the flag lookahead reported
    decoded,        \* the files handed to `flac -d`, in order (indexes)
    crcs            \* the values yield_crcs_from_flac_files has yielded

vars == << pc, flac_files, track_offsets, offset, ar_disc_info, ar_db_url,
           requested, ar_bin_data, bin_data, error, it, last, la, f, is_first,
           is_last, decoded, crcs >>

----------------------------------------------------------------------------
(* Program constants.                                                      *)

CDDA_BITS_PER_FRAME == 588
CDDA_FRAMES_PER_SEC == 75

\* the sample frames left out at the start of the first track and at the end
\* of the last one
TRIM_FIRST == 2939
TRIM_LAST == 2940

----------------------------------------------------------------------------
(* Bounds of the model.                                                    *)

\* longest offset sequence drawn for calc_ar_disc_info
MaxOffsets == 5

\* most FLAC files in the directory
MaxTracks == 3

\* most tracks of a disc identity drawn for create_accuraterip_db_url
MaxUrlTracks == 99

----------------------------------------------------------------------------
(* Wide integers.                                                          *)

Limb == 2^16

\* the wide integer of a small integer n
W(n) == [hi |-> n \div Limb, lo |-> n % Limb]

\* a + b
WAdd(a, b) == [hi |-> a.hi + b.hi + ((a.lo + b.lo) \div Limb),
               lo |-> (a.lo + b.lo) % Limb]

\* a * k, k a small integer
WMul(a, k) == [hi |-> a.hi * k + ((a.lo * k) \div Limb),
               lo |-> (a.lo * k) % Limb]

\* n << s, n a small integer
WShl(n, s) ==
    IF s >= 16
    THEN [hi |-> n * 2^(s - 16), lo |-> 0]
    ELSE [hi |-> n \div 2^(16 - s), lo |-> (n % 2^(16 - s)) * 2^s]

\* x & 0xFFFFFFFF
Mask32(a) == [hi |-> a.hi % Limb, lo |-> a.lo]

----------------------------------------------------------------------------
(* sum_digits and calc_ar_disc_info.                                       *)

RECURSIVE sum_digits(_)
sum_digits(n) == IF n > 0 THEN (n % 10) + sum_digits(n \div 10) ELSE 0

\* the loop of calc_ar_disc_info from list position k (track_num = k - 1)
RECURSIVE DiscLoop(_, _, _)
DiscLoop(offs, k, acc) ==
    IF k > Len(offs) THEN acc
    ELSE LET track_offset == offs[k]
             track_num == k - 1
             num_tracks == Len(offs) - 1
         IN  DiscLoop(offs, k + 1,
               [disc_id_1 |-> WAdd(acc.disc_id_1, W(track_offset)),
                disc_id_2 |-> WAdd(acc.disc_id_2,
                                   WMul(W(IF track_offset # 0 THEN track_offset ELSE 1),
                                        track_num + 1)),
                cddb_disc_id |->
                    IF track_num < num_tracks
                    THEN acc.cddb_disc_id
                         + sum_digits((track_offset \div CDDA_FRAMES_PER_SEC) + 2)
                    ELSE acc.cddb_disc_id])

\* calc_ar_disc_info with the partial CDDB sum reduced modulo 256
calc_ar_disc_info_mod256(offs) ==
    LET num_tracks == Len(offs) - 1
        sums == DiscLoop(offs, 1, [disc_id_1 |-> W(0), disc_id_2 |-> W(0),
                                   cddb_disc_id |-> 0])
        cddb == IF Len(offs) > 0
                THEN WAdd(WAdd(WShl(sums.cddb_disc_id % 256, 24),
                               WShl((offs[Len(offs)] \div CDDA_FRAMES_PER_SEC)
                                    - (offs[1] \div 75), 8)),
                          W(num_tracks))
                ELSE W(sums.cddb_disc_id)
    IN  [disc_id_1 |-> Mask32(sums.disc_id_1),
         disc_id_2 |-> Mask32(sums.disc_id_2),
         cddb_disc_id |-> Mask32(cddb),
         num_tracks |-> num_tracks]

calc_ar_disc_info(offs) ==
    LET num_tracks == Len(offs) - 1
        sums == DiscLoop(offs, 1, [disc_id_1 |-> W(0), disc_id_2 |-> W(0),
                                   cddb_disc_id |-> 0])
        cddb == IF Len(offs) > 0
                THEN WAdd(WAdd(WShl(sums.cddb_disc_id % 255, 24),
                               WShl((offs[Len(offs)] \div CDDA_FRAMES_PER_SEC)
                                    - (offs[1] \div 75), 8)),
                          W(num_tracks))
                ELSE W(sums.cddb_disc_id)
    IN  [disc_id_1 |-> Mask32(sums.disc_id_1),
         disc_id_2 |-> Mask32(sums.disc_id_2),
         cddb_disc_id |-> Mask32(cddb),
         num_tracks |-> num_tracks]

NoInfo == [disc_id_1 |-> W(0), disc_id_2 |-> W(0), cddb_disc_id |-> W(0),
           num_tracks |-> -1]

----------------------------------------------------------------------------
(* create_accuraterip_db_url.  A string is a sequence of one-character     *)
(* strings.                                                                *)

HexChars == << "0", "1", "2", "3", "4", "5", "6", "7",
               "8", "9", "a", "b", "c", "d", "e", "f" >>

DecChars == << "0", "1", "2", "3", "4", "5", "6", "7", "8", "9" >>

ACCURATERIP_DB_URL ==
    << "h", "t", "t", "p", ":", "/", "/", "w", "w", "w", ".", "a", "c", "c",
       "u", "r", "a", "t", "e", "r", "i", "p", ".", "c", "o", "m", "/", "a",
       "c", "c", "u", "r", "a", "t", "e", "r", "i", "p" >>

\* format(n, 'x') of a small n >= 0
RECURSIVE FormatHex(_)
FormatHex(n) ==
    IF n < 16 THEN << HexChars[n + 1] >>
    ELSE FormatHex(n \div 16) \o << HexChars[(n % 16) + 1] >>

\* format(n, 'd')
RECURSIVE FormatDec(_)
FormatDec(n) ==
    IF n < 0 THEN << "-" >> \o FormatDec(-n)
    ELSE IF n < 10 THEN << DecChars[n + 1] >>
    ELSE FormatDec(n \div 10) \o << DecChars[(n % 10) + 1] >>

\* the fill and alignment '0>width': zeros on the left up to width
RECURSIVE PadLeft(_, _)
PadLeft(s, width) ==
    IF Len(s) >= width THEN s ELSE PadLeft(<< "0" >> \o s, width)

\* format(w, 'x') of a wide integer w >= 0
WFormatHex(w) ==
    IF w.hi = 0 THEN FormatHex(w.lo)
    ELSE FormatHex(w.hi) \o PadLeft(FormatHex(w.lo), 4)

\* f'{w >> s & 0xF:x}' for s <= 12: the bits are in the low limb
Nibble(w, s) == << HexChars[((w.lo \div 2^s) % 16) + 1] >>

\* '/'.join(comps)
RECURSIVE Join(_)
Join(comps) ==
    IF Len(comps) = 0 THEN << >>
    ELSE IF Len(comps) = 1 THEN comps[1]
    ELSE comps[1] \o << "/" >> \o Join(Tail(comps))

\* the file name with its hexadecimal fields not padded ('{:x}')
FileName_unpadded(info) ==
    << "d", "B", "A", "R", "-" >> \o PadLeft(FormatDec(info.num_tracks), 3)
    \o << "-" >> \o WFormatHex(info.disc_id_1)
    \o << "-" >> \o WFormatHex(info.disc_id_2)
    \o << "-" >> \o WFormatHex(info.cddb_disc_id)
    \o << ".", "b", "i", "n" >>

FileName(info) ==
    << "d", "B", "A", "R", "-" >> \o PadLeft(FormatDec(info.num_tracks), 3)
    \o << "-" >> \o PadLeft(WFormatHex(info.disc_id_1), 8)
    \o << "-" >> \o PadLeft(WFormatHex(info.disc_id_2), 8)
    \o << "-" >> \o PadLeft(WFormatHex(info.cddb_disc_id), 8)
    \o << ".", "b", "i", "n" >>

create_accuraterip_db_url(info) ==
    Join(<< ACCURATERIP_DB_URL,
            Nibble(info.disc_id_1, 0),
            Nibble(info.disc_id_1, 4),
            Nibble(info.disc_id_1, 8),
            FileName(info) >>)

----------------------------------------------------------------------------
(* yield_data_from_bin.  A buffer is a sequence of bytes 0..255.           *)

\* struct 'b': a signed byte
I8(b) == IF b >= 128 THEN b - 256 ELSE b

\* struct '<I' at bytes s[p .. p+3]: a little-endian unsigned 32-bit value
U32LE(s, p) == [hi |-> s[p + 2] + 256 * s[p + 3], lo |-> s[p] + 256 * s[p + 1]]

Min(a, b) == IF a < b THEN a ELSE b

\* struct.iter_unpack('<bII', data) once the length is a multiple of 9
RECURSIVE IterUnpack(_)
IterUnpack(data) ==
    IF Len(data) = 0 THEN << >>
    ELSE << [confidence |-> I8(data[1]), crc |-> U32LE(data, 2)] >>
         \o IterUnpack(SubSeq(data, 10, Len(data)))

\* yield_data_from_bin without the assertion on cddb_disc_id
yield_data_from_bin_unasserted(data, info) ==
    LET header_data == SubSeq(data, 1, Min(13, Len(data)))
        per_track_data == SubSeq(data, 14, Len(data))
    IN  IF Len(header_data) # 13
        THEN [error |-> "struct.error", tracks |-> << >>]
        ELSE LET num_tracks == I8(header_data[1])
                 disc_id_1 == U32LE(header_data, 2)
                 disc_id_2 == U32LE(header_data, 6)
             IN  IF \/ num_tracks # info.num_tracks
                    \/ disc_id_1 # info.disc_id_1
                    \/ disc_id_2 # info.disc_id_2
                 THEN [error |-> "AssertionError", tracks |-> << >>]
                 ELSE IF Len(per_track_data) % 9 # 0
                 THEN [error |-> "struct.error", tracks |-> << >>]
                 ELSE [error |-> "none", tracks |-> IterUnpack(per_track_data)]

\* list(yield_data_from_bin(data, info)): the exception raised, or the
\* ARTrackInfo values yielded
yield_data_from_bin(data, info) ==
    LET header_data == SubSeq(data, 1, Min(13, Len(data)))
        per_track_data == SubSeq(data, 14, Len(data))
    IN  IF Len(header_data) # 13
        THEN [error |-> "struct.error", tracks |-> << >>]
        ELSE LET num_tracks == I8(header_data[1])
                 disc_id_1 == U32LE(header_data, 2)
                 disc_id_2 == U32LE(header_data, 6)
                 cddb_disc_id == U32LE(header_data, 10)
             IN  IF \/ num_tracks # info.num_tracks
                    \/ disc_id_1 # info.disc_id_1
                    \/ disc_id_2 # info.disc_id_2
                    \/ cddb_disc_id # info.cddb_disc_id
                 THEN [error |-> "AssertionError", tracks |-> << >>]
                 ELSE IF Len(per_track_data) % 9 # 0
                 THEN [error |-> "struct.error", tracks |-> << >>]
                 ELSE [error |-> "none", tracks |-> IterUnpack(per_track_data)]

----------------------------------------------------------------------------
(* The inputs: the FLAC files of the directory and what the database       *)
(* answers.                                                                *)

\* A FLAC file: the total samples metaflac reports, and its audio, num_samples
\* sample frames that all pack to the 32-bit value `fill`.
Files ==
    { [num_samples |-> 0, fill |-> 0],
      [num_samples |-> 588, fill |-> 7],
      [num_samples |-> 589, fill |-> 1],
      [num_samples |-> 3000, fill |-> 1],
      [num_samples |-> 5000, fill |-> 3] }

FileLists == UNION { [1..n -> Files] : n \in 0..MaxTracks }

\* struct '<I' and 'b', packing
PackU32(w) == << w.lo % 256, w.lo \div 256, w.hi % 256, w.hi \div 256 >>
PackI8(n) == n % 256

\* struct.pack('<bIII', ...): the 13-byte header of an entry
PackHeader(h) ==
    << PackI8(h.num_tracks) >> \o PackU32(h.disc_id_1) \o PackU32(h.disc_id_2)
    \o PackU32(h.cddb_disc_id)

\* struct.pack('<bII', ...): the 9-byte record of a track
PackRecord(conf, crc) == << PackI8(conf) >> \o PackU32(crc) \o << 0, 0, 0, 0 >>

\* the first r records of the e-th entry of a response, all different
RECURSIVE PackRecords(_, _)
PackRecords(e, r) ==
    IF r <= 0 THEN << >>
    ELSE PackRecords(e, r - 1) \o PackRecord(10 * e + r, [hi |-> 255 + e, lo |-> r])

\* another 32-bit value
Bump(w) == [w EXCEPT !.lo = (w.lo + 1) % Limb]

\* the header of the local disc, and headers one field away from it
Headers(info) ==
    { info,
      [info EXCEPT !.num_tracks = @ + 1],
      [info EXCEPT !.disc_id_1 = Bump(@)],
      [info EXCEPT !.disc_id_2 = Bump(@)],
      [info EXCEPT !.cddb_disc_id = Bump(@)] }

\* one entry: a header followed by as many records as it declares, one less
\* or one more
SingleEntries(info) ==
    { PackHeader(h) \o PackRecords(1, r) :
        <<h, r>> \in { <<h, r>> \in Headers(info) \X (0..(info.num_tracks + 2)) :
                          r \in (h.num_tracks - 1)..(h.num_tracks + 1) } }

\* two well-formed entries back to back, the first one the local disc's
DoubleEntries(info) ==
    { PackHeader(info) \o PackRecords(1, info.num_tracks)
      \o PackHeader(h) \o PackRecords(2, h.num_tracks) :
        h \in { info, [info EXCEPT !.disc_id_1 = Bump(@)] } }

\* what is lost at the end of a truncated response
Cuts == {0, 1, 9}

Responses(info) ==
    { << >> } \cup
    { SubSeq(b, 1, Len(b) - c) :
        <<b, c>> \in { <<b, c>> \in (SingleEntries(info) \cup DoubleEntries(info)) \X Cuts :
                          c <= Len(b) } }

----------------------------------------------------------------------------
(* yield_track_offsets, driven by list() at the top of the script.         *)

\* int(math.ceil(num_samples / CDDA_BITS_PER_FRAME)): the float quotient is
\* exact enough for the ceiling to be the integer one at these sample counts
Length(num_samples) ==
    (num_samples + CDDA_BITS_PER_FRAME - 1) \div CDDA_BITS_PER_FRAME

\* one turn of the loop: yield the offset, then add the track's length
TrackOffsetsStep ==
    /\ pc = "offsets"
    /\ Len(track_offsets) < Len(flac_files)
    /\ track_offsets' = Append(track_offsets, offset)
    /\ offset' = offset + Length(flac_files[Len(track_offsets) + 1].num_samples)
    /\ UNCHANGED << pc, flac_files, ar_disc_info, ar_db_url, requested,
                    ar_bin_data, bin_data, error, it, last, la, f, is_first,
                    is_last, decoded, crcs >>

\* the generator ends without the offset after the final track
TrackOffsetsEnd_nofinal ==
    /\ pc = "offsets"
    /\ Len(track_offsets) = Len(flac_files)
    /\ pc' = "disc_info"
    /\ UNCHANGED << flac_files, track_offsets, offset, ar_disc_info,
                    ar_db_url, requested, ar_bin_data, bin_data, error, it,
                    last, la, f, is_first, is_last, decoded, crcs >>

\* the files are exhausted: yield the offset after the final track
TrackOffsetsEnd ==
    /\ pc = "offsets"
    /\ Len(track_offsets) = Len(flac_files)
    /\ track_offsets' = Append(track_offsets, offset)
    /\ pc' = "disc_info"
    /\ UNCHANGED << flac_files, offset, ar_disc_info, ar_db_url, requested,
                    ar_bin_data, bin_data, error, it, last, la, f, is_first,
                    is_last, decoded, crcs >>

----------------------------------------------------------------------------
(* The script body.                                                        *)

CalcDiscInfo ==
    /\ pc = "disc_info"
    /\ ar_disc_info' = calc_ar_disc_info(track_offsets)
    /\ pc' = "url"
    /\ UNCHANGED << flac_files, track_offsets, offset, ar_db_url, requested,
                    ar_bin_data, bin_data, error, it, last, la, f, is_first,
                    is_last, decoded, crcs >>

CreateUrl ==
    /\ pc = "url"
    /\ ar_db_url' = create_accuraterip_db_url(ar_disc_info)
    /\ pc' = "get"
    /\ UNCHANGED << flac_files, track_offsets, offset, ar_disc_info, requested,
                    ar_bin_data, bin_data, error, it, last, la, f, is_first,
                    is_last, decoded, crcs >>

\* req.get and raise_for_status: the request fails, or the body is kept
Get ==
    /\ pc = "get"
    /\ requested' = Append(requested, ar_db_url)
    /\ \/ /\ error' = "HTTPError"
          /\ pc' = "error"
          /\ UNCHANGED ar_bin_data
       \/ /\ ar_bin_data' \in Responses(ar_disc_info)
          /\ pc' = "parse"
          /\ UNCHANGED error
    /\ UNCHANGED << flac_files, track_offsets, offset, ar_disc_info, ar_db_url,
                    bin_data, it, last, la, f, is_first, is_last, decoded,
                    crcs >>

\* bin_data = list(yield_data_from_bin(ar_bin_data, ar_disc_info))
Parse ==
    /\ pc = "parse"
    /\ LET r == yield_data_from_bin(ar_bin_data, ar_disc_info)
       IN  IF r.error # "none"
           THEN /\ error' = r.error
                /\ pc' = "error"
                /\ UNCHANGED bin_data
           ELSE /\ bin_data' = r.tracks
                /\ pc' = "crcs"
                /\ UNCHANGED error
    /\ UNCHANGED << flac_files, track_offsets, offset, ar_disc_info, ar_db_url,
                    requested, ar_bin_data, it, last, la, f, is_first, is_last,
                    decoded, crcs >>

----------------------------------------------------------------------------
(* yield_crcs_from_flac_files over lookahead, driven by list() at the end  *)
(* of the script.  A file in hand is its index in flac_files.              *)

\* list() asks the generator for its first value: is_first is set and the
\* for statement calls lookahead
CrcStart ==
    /\ pc = "crcs"
    /\ is_first' = TRUE
    /\ la' = "new"
    /\ pc' = "lookahead"
    /\ UNCHANGED << flac_files, track_offsets, offset, ar_disc_info,
                    ar_db_url, requested, ar_bin_data, bin_data, error, it,
                    last, f, is_last, decoded, crcs >>

\* lookahead pulls the first value; on an empty list next() raises
\* StopIteration inside the generator, which reaches the script as
\* RuntimeError
LookaheadStart ==
    /\ pc = "lookahead"
    /\ la = "new"
    /\ IF Len(flac_files) = 0
       THEN /\ error' = "RuntimeError"
            /\ pc' = "error"
            /\ UNCHANGED << it, last, la >>
       ELSE /\ it' = 1
            /\ last' = 1
            /\ la' = "loop"
            /\ UNCHANGED << error, pc >>
    /\ UNCHANGED << flac_files, track_offsets, offset, ar_disc_info,
                    ar_db_url, requested, ar_bin_data, bin_data, f, is_first,
                    is_last, decoded, crcs >>

\* lookahead reporting the value it held without holding the new one
LookaheadMore_keeps ==
    /\ pc = "lookahead"
    /\ la = "loop"
    /\ it < Len(flac_files)
    /\ it' = it + 1
    /\ f' = last
    /\ is_last' = FALSE
    /\ pc' = "decode"
    /\ UNCHANGED << flac_files, track_offsets, offset, ar_disc_info,
                    ar_db_url, requested, ar_bin_data, bin_data, error, last,
                    la, is_first, decoded, crcs >>

\* lookahead's loop finds another value: it reports the one it held, with
\* False, and holds the new one
LookaheadMore ==
    /\ pc = "lookahead"
    /\ la = "loop"
    /\ it < Len(flac_files)
    /\ it' = it + 1
    /\ f' = last
    /\ is_last' = FALSE
    /\ last' = it + 1
    /\ pc' = "decode"
    /\ UNCHANGED << flac_files, track_offsets, offset, ar_disc_info,
                    ar_db_url, requested, ar_bin_data, bin_data, error, la,
                    is_first, decoded, crcs >>

\* lookahead's iterator is exhausted: it reports the value it holds, with
\* True
LookaheadLast ==
    /\ pc = "lookahead"
    /\ la = "loop"
    /\ it = Len(flac_files)
    /\ f' = last
    /\ is_last' = TRUE
    /\ la' = "tail"
    /\ pc' = "decode"
    /\ UNCHANGED << flac_files, track_offsets, offset, ar_disc_info,
                    ar_db_url, requested, ar_bin_data, bin_data, error, it,
                    last, is_first, decoded, crcs >>

\* lookahead returns: the for statement ends, and with it the generator and
\* the script
LookaheadEnd ==
    /\ pc = "lookahead"
    /\ la = "tail"
    /\ la' = "end"
    /\ pc' = "done"
    /\ UNCHANGED << flac_files, track_offsets, offset, ar_disc_info,
                    ar_db_url, requested, ar_bin_data, bin_data, error, it,
                    last, f, is_first, is_last, decoded, crcs >>

\* audio_data = sub.check_output(('flac', '-d', ...))
Decode ==
    /\ pc = "decode"
    /\ decoded' = Append(decoded, f)
    /\ pc' = "check_first"
    /\ UNCHANGED << flac_files, track_offsets, offset, ar_disc_info,
                    ar_db_url, requested, ar_bin_data, bin_data, error, it,
                    last, la, f, is_first, is_last, crcs >>

\* if is_first: is_first = False
CheckFirst ==
    /\ pc = "check_first"
    /\ is_first' = IF is_first THEN FALSE ELSE is_first
    /\ pc' = "check_last"
    /\ UNCHANGED << flac_files, track_offsets, offset, ar_disc_info,
                    ar_db_url, requested, ar_bin_data, bin_data, error, it,
                    last, la, f, is_last, decoded, crcs >>

\* if is_last: pass
CheckLast ==
    /\ pc = "check_last"
    /\ pc' = "yield"
    /\ UNCHANGED << flac_files, track_offsets, offset, ar_disc_info,
                    ar_db_url, requested, ar_bin_data, bin_data, error, it,
                    last, la, f, is_first, is_last, decoded, crcs >>

\* yield 0
YieldCrc ==
    /\ pc = "yield"
    /\ crcs' = Append(crcs, 0)
    /\ pc' = "lookahead"
    /\ UNCHANGED << flac_files, track_offsets, offset, ar_disc_info,
                    ar_db_url, requested, ar_bin_data, bin_data, error, it,
                    last, la, f, is_first, is_last, decoded >>

----------------------------------------------------------------------------
(* The script: the files found in the directory, then the body.            *)

Init ==
    /\ pc = "offsets"
    /\ flac_files \in FileLists
    /\ track_offsets = << >>
    /\ offset = 0
    /\ ar_disc_info = NoInfo
    /\ ar_db_url = << >>
    /\ requested = << >>
    /\ ar_bin_data = << >>
    /\ bin_data = << >>
    /\ error = "none"
    /\ it = 0
    /\ last = 0
    /\ la = "none"
    /\ f = 0
    /\ is_first = FALSE
    /\ is_last = FALSE
    /\ decoded = << >>
    /\ crcs = << >>

Next ==
    \/ TrackOffsetsStep
    \/ TrackOffsetsEnd
    \/ CalcDiscInfo
    \/ CreateUrl
    \/ Get
    \/ Parse
    \/ CrcStart
    \/ LookaheadStart
    \/ LookaheadMore
    \/ LookaheadLast
    \/ LookaheadEnd
    \/ Decode
    \/ CheckFirst
    \/ CheckLast
    \/ YieldCrc

Spec == Init /\ [][Next]_vars

----------------------------------------------------------------------------
(* calc_ar_disc_info on its own: an offset sequence is drawn and the       *)
(* function applied to it.                                                 *)

\* offsets at the edges of the arithmetic: zero, a second's boundary, the
\* documented example, an offset whose seconds have a large digit sum, and
\* the largest one; their sums pass 2^32
OffsetValues == {0, 74, 75, 1701, 1499999775, 2147483647}

OffsetSeqs == UNION { [1..n -> OffsetValues] : n \in 2..MaxOffsets }

InitDisc ==
    /\ pc = "disc_info"
    /\ track_offsets \in OffsetSeqs
    /\ flac_files = << >>
    /\ offset = 0
    /\ ar_disc_info = NoInfo
    /\ ar_db_url = << >>
    /\ requested = << >>
    /\ ar_bin_data = << >>
    /\ bin_data = << >>
    /\ error = "none"
    /\ it = 0
    /\ last = 0
    /\ la = "none"
    /\ f = 0
    /\ is_first = FALSE
    /\ is_last = FALSE
    /\ decoded = << >>
    /\ crcs = << >>

NextDisc == CalcDiscInfo

SpecDisc == InitDisc /\ [][NextDisc]_vars

----------------------------------------------------------------------------
(* C1: the three identifiers as closed sums.                               *)

RECURSIVE SeqSum(_)
SeqSum(s) == IF Len(s) = 0 THEN 0 ELSE Head(s) + SeqSum(Tail(s))

\* hi * 2^16 + lo modulo 2^32, for any integers hi and lo >= 0
Mod32(hi, lo) == [hi |-> (hi + (lo \div Limb)) % Limb, lo |-> lo % Limb]

\* the sum of the decimal digits of 0 <= n < 10^10
DigitSum(n) == SeqSum([k \in 1..10 |-> (n \div 10^(k - 1)) % 10])

OneIfZero(o) == IF o # 0 THEN o ELSE 1

C1_DiscId1(offs) ==
    Mod32(SeqSum([i \in 1..Len(offs) |-> offs[i] \div Limb]),
          SeqSum([i \in 1..Len(offs) |-> offs[i] % Limb]))

C1_DiscId2(offs) ==
    Mod32(SeqSum([i \in 1..Len(offs) |-> (OneIfZero(offs[i]) \div Limb) * i]),
          SeqSum([i \in 1..Len(offs) |-> (OneIfZero(offs[i]) % Limb) * i]))

\* (P * 2^24 + D * 2^8 + N) mod 2^32, with D = 256 * (D div 256) + (D mod 256)
C1_CddbDiscId(offs) ==
    LET N == Len(offs) - 1
        P == SeqSum([i \in 1..N |-> DigitSum((offs[i] \div 75) + 2)]) % 255
        D == (offs[N + 1] \div 75) - (offs[1] \div 75)
    IN  Mod32(P * 256 + (D \div 256), (D % 256) * 256 + N)

\* C1: for every offset sequence o_0..o_N with N >= 1, calc_ar_disc_info
\* returns disc_id_1 = (sum o_i) mod 2^32, disc_id_2 = (sum (o_i or 1) * (i+1))
\* mod 2^32, cddb_disc_id = ((digit sums mod 255) * 2^24 + (o_N div 75 -
\* o_0 div 75) * 2^8 + N) mod 2^32 and num_tracks = N; offsets [0, 1701] give
\* 1701, 3403, 0x02001601 and 1.
C1_DiscInfoSums ==
    pc = "url" =>
        /\ ar_disc_info.disc_id_1 = C1_DiscId1(track_offsets)
        /\ ar_disc_info.disc_id_2 = C1_DiscId2(track_offsets)
        /\ ar_disc_info.cddb_disc_id = C1_CddbDiscId(track_offsets)
        /\ ar_disc_info.num_tracks = Len(track_offsets) - 1
        /\ track_offsets = << 0, 1701 >> =>
               ar_disc_info = [disc_id_1 |-> [hi |-> 0, lo |-> 1701],
                               disc_id_2 |-> [hi |-> 0, lo |-> 3403],
                               cddb_disc_id |-> [hi |-> 512, lo |-> 5633],
                               num_tracks |-> 1]

\* the sum of the offsets passes 2^32 and is truncated at the end:
\* 3 * (2^31 - 1) mod 2^32 = 2^31 - 3
C1_Witness ==
    /\ pc = "url"
    /\ track_offsets = << 2147483647, 2147483647, 2147483647 >>
    /\ ar_disc_info.disc_id_1 = [hi |-> 32767, lo |-> 65533]

----------------------------------------------------------------------------
(* create_accuraterip_db_url on its own: a disc identity is drawn and the  *)
(* function applied to it.                                                 *)

\* 0, 1, 0xab, 0x1234, 0x10000, 0xdeadbeef, 0xffffffff
IdValues ==
    { [hi |-> 0, lo |-> 0], [hi |-> 0, lo |-> 1], [hi |-> 0, lo |-> 171],
      [hi |-> 0, lo |-> 4660], [hi |-> 1, lo |-> 0],
      [hi |-> 57005, lo |-> 48879], [hi |-> 65535, lo |-> 65535] }

InitUrl ==
    /\ pc = "url"
    /\ ar_disc_info \in [disc_id_1 : IdValues, disc_id_2 : IdValues,
                         cddb_disc_id : IdValues, num_tracks : 1..MaxUrlTracks]
    /\ flac_files = << >>
    /\ track_offsets = << >>
    /\ offset = 0
    /\ ar_db_url = << >>
    /\ requested = << >>
    /\ ar_bin_data = << >>
    /\ bin_data = << >>
    /\ error = "none"
    /\ it = 0
    /\ last = 0
    /\ la = "none"
    /\ f = 0
    /\ is_first = FALSE
    /\ is_last = FALSE
    /\ decoded = << >>
    /\ crcs = << >>

NextUrl == CreateUrl

SpecUrl == InitUrl /\ [][NextUrl]_vars

----------------------------------------------------------------------------
(* C8: reading the URL back.                                               *)

\* s.split(sep)
RECURSIVE Split(_, _)
Split(s, sep) ==
    IF \A i \in 1..Len(s) : s[i] # sep THEN << s >>
    ELSE LET i == CHOOSE j \in 1..Len(s) :
                      s[j] = sep /\ \A k \in 1..(j - 1) : s[k] # sep
         IN  << SubSeq(s, 1, i - 1) >> \o Split(SubSeq(s, i + 1, Len(s)), sep)

IsDigits(s, chars) ==
    \A i \in 1..Len(s) : \E k \in 1..Len(chars) : chars[k] = s[i]

DigitValue(c, chars) == (CHOOSE k \in 1..Len(chars) : chars[k] = c) - 1

\* int(s, base) of a digit string
RECURSIVE ParseInt(_, _)
ParseInt(s, chars) ==
    IF Len(s) = 0 THEN 0
    ELSE ParseInt(SubSeq(s, 1, Len(s) - 1), chars) * Len(chars)
         + DigitValue(s[Len(s)], chars)

\* int(s, 16) of eight hexadecimal digits
ParseHex8(s) == [hi |-> ParseInt(SubSeq(s, 1, 4), HexChars),
                 lo |-> ParseInt(SubSeq(s, 5, 8), HexChars)]

C8_ReadsBack(url, info) ==
    LET comps == Split(url, "/")
        n == Len(comps)
        name == comps[n]
        fields == Split(SubSeq(name, 1, Len(name) - 4), "-")
    IN  /\ n >= 4
        /\ Len(name) >= 4
        /\ SubSeq(name, Len(name) - 3, Len(name)) = << ".", "b", "i", "n" >>
        /\ Len(fields) = 5
        /\ fields[1] = << "d", "B", "A", "R" >>
        /\ Len(fields[2]) = 3
        /\ IsDigits(fields[2], DecChars)
        /\ ParseInt(fields[2], DecChars) = info.num_tracks
        /\ \A k \in 3..5 : Len(fields[k]) = 8 /\ IsDigits(fields[k], HexChars)
        /\ ParseHex8(fields[3]) = info.disc_id_1
        /\ ParseHex8(fields[4]) = info.disc_id_2
        /\ ParseHex8(fields[5]) = info.cddb_disc_id
        /\ \A k \in 1..3 : Len(comps[n - 4 + k]) = 1
                            /\ IsDigits(comps[n - 4 + k], HexChars)
        /\ ParseInt(comps[n - 3], HexChars) = info.disc_id_1.lo % 16
        /\ ParseInt(comps[n - 2], HexChars) = (info.disc_id_1.lo \div 16) % 16
        /\ ParseInt(comps[n - 1], HexChars) = (info.disc_id_1.lo \div 256) % 16

\* C8: for every disc identity with ids in 0..2^32-1 and num_tracks in 1..99,
\* the file name dBAR-NNN-X-Y-Z.bin of the URL read back (NNN decimal, X, Y, Z
\* hexadecimal) gives num_tracks, disc_id_1, disc_id_2, cddb_disc_id; NNN has 3
\* digits, X, Y, Z have 8 lowercase hexadecimal digits, and the three path
\* segments before it are bits [0:4), [4:8), [8:12) of disc_id_1.
C8_UrlRoundTrip ==
    pc = "get" => C8_ReadsBack(ar_db_url, ar_disc_info)

\* the URL of 7 tracks and disc_id_1 = 0xab: segments b, a, 0 and padded fields
C8_Witness ==
    /\ pc = "get"
    /\ ar_disc_info.num_tracks = 7
    /\ ar_disc_info.disc_id_1 = [hi |-> 0, lo |-> 171]
    /\ SubSeq(ar_db_url, 39, 62) =
         << "/", "b", "/", "a", "/", "0", "/", "d", "B", "A", "R", "-", "0",
            "0", "7", "-", "0", "0", "0", "0", "0", "0", "a", "b" >>

----------------------------------------------------------------------------
(* The checksum stage on its own: list(yield_crcs_from_flac_files(files))  *)
(* for a drawn list of files.  list() asks for values until the generator  *)
(* ends, so a step that can be taken is taken.                             *)

InitCrc ==
    /\ pc = "crcs"
    /\ flac_files \in FileLists
    /\ track_offsets = << >>
    /\ offset = 0
    /\ ar_disc_info = NoInfo
    /\ ar_db_url = << >>
    /\ requested = << >>
    /\ ar_bin_data = << >>
    /\ bin_data = << >>
    /\ error = "none"
    /\ it = 0
    /\ last = 0
    /\ la = "none"
    /\ f = 0
    /\ is_first = FALSE
    /\ is_last = FALSE
    /\ decoded = << >>
    /\ crcs = << >>

NextCrc ==
    \/ CrcStart
    \/ LookaheadStart
    \/ LookaheadMore
    \/ LookaheadLast
    \/ LookaheadEnd
    \/ Decode
    \/ CheckFirst
    \/ CheckLast
    \/ YieldCrc

SpecCrc == InitCrc /\ [][NextCrc]_vars /\ WF_vars(NextCrc)

----------------------------------------------------------------------------
(* C2, C9: the track offsets and the empty directory.                      *)

\* C2: for a non-empty list of N sample counts (zero allowed) the offsets
\* yield_track_offsets produces are N+1, the first is 0, and they never
\* decrease: a track of zero samples still has its offset.
C2_TrackOffsetsShape ==
    (pc # "offsets" /\ Len(flac_files) >= 1) =>
        /\ Len(track_offsets) = Len(flac_files) + 1
        /\ track_offsets[1] = 0
        /\ \A i \in 1..(Len(track_offsets) - 1) :
               track_offsets[i] <= track_offsets[i + 1]

\* three tracks, the second of zero samples: its offset is there, equal to
\* the next one
C2_Witness ==
    /\ pc = "disc_info"
    /\ Len(flac_files) = 3
    /\ flac_files[1].num_samples = 589
    /\ flac_files[2].num_samples = 0
    /\ track_offsets = << 0, 2, 2, 2 + Length(flac_files[3].num_samples) >>

\* C9: with no track the script ends in an error before any URL is requested
\* and before any track is decoded, and no disc identity of zero tracks is
\* produced.
C9_EmptyListRejected ==
    Len(flac_files) = 0 =>
        /\ requested = << >>
        /\ decoded = << >>
        /\ ar_disc_info.num_tracks # 0

----------------------------------------------------------------------------
(* C10, C7: the checksum stage.                                            *)

InBody == pc \in {"decode", "check_first", "check_last", "yield"}

\* every track once, in order, with is_last on the N-th only and is_first,
\* where it is tested, on the first only
C10_Flags ==
    Len(flac_files) >= 1 =>
        /\ \A i \in 1..Len(decoded) : decoded[i] = i
        /\ Len(decoded) <= Len(flac_files)
        /\ Len(crcs) <= Len(decoded)
        /\ InBody => /\ f = Len(crcs) + 1
                     /\ f \in 1..Len(flac_files)
                     /\ is_last <=> (f = Len(flac_files))
        /\ pc \in {"decode", "check_first"} => (is_first <=> (f = 1))
        /\ pc = "done" => /\ Len(crcs) = Len(flac_files)
                          /\ Len(decoded) = Len(flac_files)

PositionSum(lo, hi) == IF lo > hi THEN 0 ELSE ((hi * (hi + 1)) - ((lo - 1) * lo)) \div 2

\* the AccurateRip checksum of a file whose frames all pack to `fill`: the
\* frames after the first TRIM_FIRST of a first track and before the last
\* TRIM_LAST of a last one, each times its position in the whole track.  With
\* the files of the model the sum stays under 2^31, so it is its own residue
\* modulo 2^32.
ExpectedCrc(file, first, final) ==
    file.fill * PositionSum(IF first THEN TRIM_FIRST + 1 ELSE 1,
                            IF final THEN file.num_samples - TRIM_LAST
                                     ELSE file.num_samples)

\* C7: the checksum emitted for a track is the sum over the frames left after
\* trimming of packed value * position in the untrimmed track, modulo 2^32.
C7_ChecksumIsWeightedSum ==
    \A i \in 1..Len(crcs) :
        crcs[i] = ExpectedCrc(flac_files[i], i = 1, i = Len(flac_files))

----------------------------------------------------------------------------
(* C3, C4, C5, C6: the response.  RefParse reads a buffer as the format    *)
(* has it: entries back to back, each a 13-byte header and as many 9-byte  *)
(* records as the header declares.                                         *)

RefHeader(buf) ==
    [num_tracks |-> I8(buf[1]), disc_id_1 |-> U32LE(buf, 2),
     disc_id_2 |-> U32LE(buf, 6), cddb_disc_id |-> U32LE(buf, 10)]

RECURSIVE RefRecords(_, _)
RefRecords(buf, n) ==
    IF n = 0 THEN << >>
    ELSE << [confidence |-> I8(buf[1]), crc |-> U32LE(buf, 2)] >>
         \o RefRecords(SubSeq(buf, 10, Len(buf)), n - 1)

RECURSIVE RefParse(_)
RefParse(buf) ==
    IF Len(buf) = 0 THEN [ok |-> TRUE, entries |-> << >>]
    ELSE IF Len(buf) < 13 THEN [ok |-> FALSE, entries |-> << >>]
    ELSE LET h == RefHeader(buf)
             body == SubSeq(buf, 14, Len(buf))
         IN  IF h.num_tracks < 0 \/ h.num_tracks * 9 > Len(body)
             THEN [ok |-> FALSE, entries |-> << >>]
             ELSE LET rest == RefParse(SubSeq(body, h.num_tracks * 9 + 1, Len(body)))
                  IN  [ok |-> rest.ok,
                       entries |-> << [header |-> h,
                                       tracks |-> RefRecords(body, h.num_tracks)] >>
                                   \o rest.entries]

\* the track records of all the entries, in buffer order
RECURSIVE AllTracks(_)
AllTracks(entries) ==
    IF Len(entries) = 0 THEN << >>
    ELSE entries[1].tracks \o AllTracks(Tail(entries))

ParseErrors == {"struct.error", "AssertionError"}

\* yield_data_from_bin has run
Parsed ==
    \/ pc \in {"crcs", "lookahead", "decode", "check_first", "check_last",
               "yield", "done"}
    \/ pc = "error" /\ error \in ParseErrors \cup {"RuntimeError"}

ParseFailed == pc = "error" /\ error \in ParseErrors

\* C3 to C6 are stated of a disc of at least one track, so that what refutes
\* them does not rest on the empty directory of C9
ParsedOfDisc == Parsed /\ Len(flac_files) >= 1

\* C3: a well-formed buffer of K >= 2 entries is consumed whole and gives K
\* candidates, the k-th with its t_k (confidence, checksum) pairs in buffer
\* order.  The script keeps one flat list, so the pairs are compared to that.
C3_MultiEntryParsed ==
    (ParsedOfDisc /\ RefParse(ar_bin_data).ok
     /\ Len(RefParse(ar_bin_data).entries) >= 2) =>
        /\ ~ParseFailed
        /\ bin_data = AllTracks(RefParse(ar_bin_data).entries)

\* C4: parsing ends in an error whenever the buffer ends inside a header,
\* inside a record, or a header declares more records than the bytes left.
C4_TruncatedFails ==
    (ParsedOfDisc /\ ~RefParse(ar_bin_data).ok) => ParseFailed

\* C5: parsing a zero-length buffer succeeds with no candidate.
C5_EmptyResponseParsed ==
    (ParsedOfDisc /\ Len(ar_bin_data) = 0) => (~ParseFailed /\ bin_data = << >>)

SingleEntry(buf) == RefParse(buf).ok /\ Len(RefParse(buf).entries) = 1

\* C6: a well-formed entry whose header differs from the local disc identity
\* in any of the four fields is still parsed and its track records returned.
C6_MismatchStillParsed ==
    (ParsedOfDisc /\ SingleEntry(ar_bin_data)
     /\ RefHeader(ar_bin_data) # ar_disc_info) =>
        /\ ~ParseFailed
        /\ bin_data = RefParse(ar_bin_data).entries[1].tracks

\* C6 as the script has it: a buffer of at least 13 bytes whose header
\* differs from the local disc identity in any of the four fields ends
\* parsing in AssertionError with no track record returned; a single
\* well-formed entry whose header equals it is parsed and its records
\* returned.
C6_HeaderMustMatch ==
    /\ (Parsed /\ Len(ar_bin_data) >= 13 /\ RefHeader(ar_bin_data) # ar_disc_info) =>
           (pc = "error" /\ error = "AssertionError" /\ bin_data = << >>)
    /\ (Parsed /\ SingleEntry(ar_bin_data) /\ RefHeader(ar_bin_data) = ar_disc_info) =>
           (~ParseFailed /\ bin_data = RefParse(ar_bin_data).entries[1].tracks)

\* a well-formed entry of two records that differs from the local disc in
\* cddb_disc_id alone was refused
C6_Witness ==
    /\ pc = "error"
    /\ error = "AssertionError"
    /\ SingleEntry(ar_bin_data)
    /\ Len(RefParse(ar_bin_data).entries[1].tracks) = 2
    /\ RefHeader(ar_bin_data).num_tracks = ar_disc_info.num_tracks
    /\ RefHeader(ar_bin_data).disc_id_1 = ar_disc_info.disc_id_1
    /\ RefHeader(ar_bin_data).disc_id_2 = ar_disc_info.disc_id_2
    /\ RefHeader(ar_bin_data).cddb_disc_id # ar_disc_info.cddb_disc_id

====
